---- MODULE Spec2Model ----
(***************************************************************************)
(* Model of src/pattern_Iterator.py: a dictionary of attractions (groups)  *)
(* with their exhibits (items), and the three iterators created by         *)
(* CityAttractions.create_iterator: SequentialIterator, BusIterator and    *)
(* RandomWalkIterator.                                                     *)
(*                                                                         *)
(* A Python dict is modelled as the sequence of its (key, value) entries   *)
(* in insertion order.  Python indices are 0-based, TLA+ sequences are     *)
(* 1-based: keys[c] in the source is keys[c + 1] here.  The result of a    *)
(* call is a record [tag, val]: a string, a boolean, None, or a raised     *)
(* exception.                                                              *)
(***************************************************************************)
EXTENDS Integers, Sequences, FiniteSets, TLC

VARIABLES attractions, attractions0, its, last, out, gated, alone, req, rec, pc

vars == <<attractions, attractions0, its, last, out, gated, alone, req, rec, pc>>

\* ------------------------------------------------------------------ bounds
MaxGroups == 3
MaxItems == 2
MaxGroups2 == 2
MaxItems2 == 1
MaxGroups3 == 2
MaxItems3 == 1

GroupNames == <<"A", "B", "C", "D", "E", "F">>
ItemNames == <<"x", "y", "z", "w", "v", "u">>

Insts == {1, 2, 3}

\* the two iterators whose calls are interleaved
Pair == {1, 2}

\* ------------------------------------------------------- values of a call
StrVal(s) == [tag |-> "str", val |-> s]
BoolVal(b) == [tag |-> "bool", val |-> IF b THEN "True" ELSE "False"]
None == [tag |-> "None", val |-> ""]
IndexError == [tag |-> "raise", val |-> "IndexError"]
ExhaustedIterator == [tag |-> "raise", val |-> "ExhaustedIterator"]

\* f"{key}: {exhibit}"
Format(key, exhibit) == key \o ": " \o exhibit

\* ------------------------------------------------------------ the dict
\* list(attractions.keys()): a new list of the keys, in insertion order
keys(attrs) == [k \in 1..Len(attrs) |-> attrs[k].key]

\* attractions[key]
getitem(attrs, key) ==
    attrs[CHOOSE k \in 1..Len(attrs) : attrs[k].key = key].exhibits

\* a dict with the given number of exhibits for each attraction
MkCollection(sizes) ==
    [g \in 1..Len(sizes) |->
        [key |-> GroupNames[g], exhibits |-> SubSeq(ItemNames, 1, sizes[g])]]

Collections(mg, mi) ==
    UNION {{MkCollection(sizes) : sizes \in [1..n -> 0..mi]} : n \in 0..mg}

\* a draw with replacement instead of a shuffle: names may repeat or be lost
Shuffles_choices(ks) ==
    {[k \in 1..Len(ks) |-> ks[p[k]]] : p \in [1..Len(ks) -> 1..Len(ks)]}

\* a shuffle with a fixed seed: always the same ordering, the reverse
Shuffles_seeded(ks) == {[k \in 1..Len(ks) |-> ks[Len(ks) + 1 - k]]}

\* random.shuffle(keys): every ordering of the list is a possible outcome
Shuffles(ks) ==
    {[k \in 1..Len(ks) |-> ks[p[k]]] :
        p \in {q \in [1..Len(ks) -> 1..Len(ks)] :
                  \A a, b \in 1..Len(ks) : a # b => q[a] # q[b]}}

\* ------------------------------------------------------------ iterators
NoIter == [cls |-> "none"]

SequentialIterator__init__(attrs) ==
    [cls |-> "SequentialIterator",
     keys_ |-> keys(attrs),
     current_attraction |-> 0,
     current_exhibit |-> 0]

BusIterator__init__(attrs) ==
    [cls |-> "BusIterator",
     keys_ |-> keys(attrs),
     index |-> 0]

\* the shuffled order ks is the outcome of random.shuffle(self._keys)
RandomWalkIterator__init__(attrs, ks) ==
    [cls |-> "RandomWalkIterator",
     keys_ |-> ks,
     current_attraction |-> 0,
     current_exhibit |-> 0]

\* a has_next that moves the group cursor while it looks ahead
SequentialIterator_has_next_advancing(self) ==
    [self |-> IF self.current_attraction < Len(self.keys_)
              THEN [self EXCEPT !.current_attraction = @ + 1]
              ELSE self,
     ret |-> self.current_attraction < Len(self.keys_)]

SequentialIterator_has_next(self) ==
    [self |-> self, ret |-> self.current_attraction < Len(self.keys_)]

BusIterator_has_next(self) ==
    [self |-> self, ret |-> self.index < Len(self.keys_)]

RandomWalkIterator_has_next(self) ==
    [self |-> self, ret |-> self.current_attraction < Len(self.keys_)]

\* the exhibit cursor is not set back to 0 when the attraction changes
RECURSIVE SequentialIterator_next_noreset(_, _)
SequentialIterator_next_noreset(self, attrs) ==
    IF self.current_attraction >= Len(self.keys_)
    THEN [self |-> self, ret |-> IndexError, depth |-> 0]
    ELSE LET key == self.keys_[self.current_attraction + 1]
             exhibits == getitem(attrs, key)
         IN IF self.current_exhibit < Len(exhibits)
            THEN [self |-> [self EXCEPT !.current_exhibit = @ + 1],
                  ret |-> StrVal(Format(key, exhibits[self.current_exhibit + 1])),
                  depth |-> 0]
            ELSE LET adv == [self EXCEPT !.current_attraction = @ + 1]
                 IN IF adv.current_attraction < Len(adv.keys_)
                    THEN [SequentialIterator_next_noreset(adv, attrs)
                             EXCEPT !.depth = @ + 1]
                    ELSE [self |-> adv, ret |-> None, depth |-> 0]

RECURSIVE SequentialIterator_next(_, _)
SequentialIterator_next(self, attrs) ==
    IF self.current_attraction >= Len(self.keys_)
    THEN [self |-> self, ret |-> IndexError, depth |-> 0]
    ELSE LET key == self.keys_[self.current_attraction + 1]
             exhibits == getitem(attrs, key)
         IN IF self.current_exhibit < Len(exhibits)
            THEN [self |-> [self EXCEPT !.current_exhibit = @ + 1],
                  ret |-> StrVal(Format(key, exhibits[self.current_exhibit + 1])),
                  depth |-> 0]
            ELSE LET adv == [self EXCEPT !.current_attraction = @ + 1,
                                         !.current_exhibit = 0]
                 IN IF SequentialIterator_has_next(adv).ret
                    THEN [SequentialIterator_next(adv, attrs) EXCEPT !.depth = @ + 1]
                    ELSE [self |-> adv, ret |-> None, depth |-> 0]

\* the index is incremented before the key is read
BusIterator_next_incfirst(self, attrs) ==
    LET adv == [self EXCEPT !.index = @ + 1]
    IN IF self.index >= Len(self.keys_)
       THEN [self |-> self, ret |-> IndexError, depth |-> 0]
       ELSE IF adv.index >= Len(adv.keys_)
       THEN [self |-> adv, ret |-> IndexError, depth |-> 0]
       ELSE [self |-> adv, ret |-> StrVal(adv.keys_[adv.index + 1]), depth |-> 0]

\* the index is rewound when the end is reached
BusIterator_next_rewind(self, attrs) ==
    IF self.index >= Len(self.keys_)
    THEN [self |-> [self EXCEPT !.index = 0], ret |-> IndexError, depth |-> 0]
    ELSE [self |-> [self EXCEPT !.index = @ + 1],
          ret |-> StrVal(self.keys_[self.index + 1]), depth |-> 0]

\* the index is never incremented
BusIterator_next_stuck(self, attrs) ==
    IF self.index >= Len(self.keys_)
    THEN [self |-> self, ret |-> IndexError, depth |-> 0]
    ELSE [self |-> self, ret |-> StrVal(self.keys_[self.index + 1]), depth |-> 0]

BusIterator_next(self, attrs) ==
    IF self.index >= Len(self.keys_)
    THEN [self |-> self, ret |-> IndexError, depth |-> 0]
    ELSE [self |-> [self EXCEPT !.index = @ + 1],
          ret |-> StrVal(self.keys_[self.index + 1]), depth |-> 0]

\* the exhibit cursor is not set back to 0 when the attraction changes
RECURSIVE RandomWalkIterator_next_noreset(_, _)
RandomWalkIterator_next_noreset(self, attrs) ==
    IF self.current_attraction >= Len(self.keys_)
    THEN [self |-> self, ret |-> IndexError, depth |-> 0]
    ELSE LET key == self.keys_[self.current_attraction + 1]
             exhibits == getitem(attrs, key)
         IN IF self.current_exhibit < Len(exhibits)
            THEN [self |-> [self EXCEPT !.current_exhibit = @ + 1],
                  ret |-> StrVal(Format(key, exhibits[self.current_exhibit + 1])),
                  depth |-> 0]
            ELSE LET adv == [self EXCEPT !.current_attraction = @ + 1]
                 IN IF adv.current_attraction < Len(adv.keys_)
                    THEN [RandomWalkIterator_next_noreset(adv, attrs)
                             EXCEPT !.depth = @ + 1]
                    ELSE [self |-> adv, ret |-> None, depth |-> 0]

RECURSIVE RandomWalkIterator_next(_, _)
RandomWalkIterator_next(self, attrs) ==
    IF self.current_attraction >= Len(self.keys_)
    THEN [self |-> self, ret |-> IndexError, depth |-> 0]
    ELSE LET key == self.keys_[self.current_attraction + 1]
             exhibits == getitem(attrs, key)
         IN IF self.current_exhibit < Len(exhibits)
            THEN [self |-> [self EXCEPT !.current_exhibit = @ + 1],
                  ret |-> StrVal(Format(key, exhibits[self.current_exhibit + 1])),
                  depth |-> 0]
            ELSE LET adv == [self EXCEPT !.current_attraction = @ + 1,
                                         !.current_exhibit = 0]
                 IN IF RandomWalkIterator_has_next(adv).ret
                    THEN [RandomWalkIterator_next(adv, attrs) EXCEPT !.depth = @ + 1]
                    ELSE [self |-> adv, ret |-> None, depth |-> 0]

\* dynamic dispatch of iterator.has_next() and iterator.next()
has_next(self) ==
    CASE self.cls = "SequentialIterator" -> SequentialIterator_has_next(self)
      [] self.cls = "BusIterator" -> BusIterator_has_next(self)
      [] self.cls = "RandomWalkIterator" -> RandomWalkIterator_has_next(self)

next(self, attrs) ==
    CASE self.cls = "SequentialIterator" -> SequentialIterator_next(self, attrs)
      [] self.cls = "BusIterator" -> BusIterator_next(self, attrs)
      [] self.cls = "RandomWalkIterator" -> RandomWalkIterator_next(self, attrs)

\* the iterators create_iterator(type_) can return
Types == {"sequential", "bus", "random_walk", "other"}

\* the random tag is compared with a misspelt constant
create_iterator_misspelt(attrs, type_) ==
    IF type_ = "bus" THEN {BusIterator__init__(attrs)}
    ELSE IF type_ = "random"
         THEN {RandomWalkIterator__init__(attrs, ks) : ks \in Shuffles(keys(attrs))}
         ELSE {SequentialIterator__init__(attrs)}

create_iterator(attrs, type_) ==
    IF type_ = "bus" THEN {BusIterator__init__(attrs)}
    ELSE IF type_ = "random_walk"
         THEN {RandomWalkIterator__init__(attrs, ks) : ks \in Shuffles(keys(attrs))}
         ELSE {SequentialIterator__init__(attrs)}

\* number of elements an iterator has not yet returned
RECURSIVE SumExhibits(_, _, _)
SumExhibits(attrs, ks, from) ==
    IF from > Len(ks) THEN 0
    ELSE Len(getitem(attrs, ks[from])) + SumExhibits(attrs, ks, from + 1)

Remaining(self, attrs) ==
    IF self.cls = "BusIterator"
    THEN IF self.index < Len(self.keys_) THEN Len(self.keys_) - self.index ELSE 0
    ELSE IF self.current_attraction < Len(self.keys_)
         THEN SumExhibits(attrs, self.keys_, self.current_attraction + 1)
                 - self.current_exhibit
         ELSE 0

\* ---------------------------------------------------------------- actions
Call(op, pre, rem, ret) == [op |-> op, pre |-> pre, rem |-> rem, ret |-> ret]

Lone(self, ret, o) == [self |-> self, ret |-> ret, out |-> o]

\* the attractions without exhibits that a next() call moved the cursor past
EmptyPassed(self, after, attrs) ==
    IF self.cls = "BusIterator" THEN 0
    ELSE Cardinality({k \in (self.current_attraction + 1)..after.current_attraction :
                         getitem(attrs, self.keys_[k]) = <<>>})

\* what is known of the last next() call: how many times it re-entered
\* next, and how many empty attractions it passed
Rec(depth, skipped) == [depth |-> depth, skipped |-> skipped]

\* the shuffle is done on the collection's own key order, not on a copy
CreateIterator_aliased(i, type_) ==
    /\ its[i] = NoIter
    /\ \E it \in create_iterator(attractions, type_) :
          /\ its' = [its EXCEPT ![i] = it]
          /\ alone' = [alone EXCEPT ![i] =
                IF it.cls = "RandomWalkIterator"
                THEN Lone(RandomWalkIterator__init__(attractions0, it.keys_), None, <<>>)
                ELSE Lone(CHOOSE a \in create_iterator(attractions0, type_) : TRUE,
                          None, <<>>)]
          /\ attractions' =
                IF it.cls = "RandomWalkIterator"
                THEN [k \in 1..Len(it.keys_) |->
                        [key |-> it.keys_[k], exhibits |-> getitem(attractions, it.keys_[k])]]
                ELSE attractions
    /\ last' = [last EXCEPT ![i] = Call("create", FALSE, 0, None)]
    /\ req' = [req EXCEPT ![i] = type_]
    /\ UNCHANGED <<attractions0, out, gated, rec>>

\* iterator = city.create_iterator(type_)
CreateIterator(i, type_) ==
    /\ its[i] = NoIter
    /\ \E it \in create_iterator(attractions, type_) :
          /\ its' = [its EXCEPT ![i] = it]
          /\ alone' = [alone EXCEPT ![i] =
                IF it.cls = "RandomWalkIterator"
                THEN Lone(RandomWalkIterator__init__(attractions0, it.keys_), None, <<>>)
                ELSE Lone(CHOOSE a \in create_iterator(attractions0, type_) : TRUE,
                          None, <<>>)]
    /\ last' = [last EXCEPT ![i] = Call("create", FALSE, 0, None)]
    /\ req' = [req EXCEPT ![i] = type_]
    /\ UNCHANGED <<attractions, attractions0, out, gated, rec>>

\* iterator.has_next()
HasNextCall(i) ==
    /\ its[i] # NoIter
    /\ LET r == has_next(its[i])
           a == has_next(alone[i].self)
       IN /\ its' = [its EXCEPT ![i] = r.self]
          /\ last' = [last EXCEPT ![i] =
                Call("has_next", has_next(its[i]).ret,
                     Remaining(its[i], attractions), BoolVal(r.ret))]
          /\ alone' = [alone EXCEPT ![i] = Lone(a.self, BoolVal(a.ret), @.out)]
    /\ rec' = [rec EXCEPT ![i] = Rec(0, 0)]
    /\ UNCHANGED <<attractions, attractions0, out, gated, req>>

\* iterator.next(); a raised exception hands no value to the caller
NextCall(i) ==
    /\ its[i] # NoIter
    /\ LET r == next(its[i], attractions)
           a == next(alone[i].self, attractions0)
       IN /\ its' = [its EXCEPT ![i] = r.self]
          /\ last' = [last EXCEPT ![i] =
                Call("next", has_next(its[i]).ret,
                     Remaining(its[i], attractions), r.ret)]
          /\ out' = [out EXCEPT ![i] =
                IF r.ret.tag = "raise" THEN @ ELSE Append(@, r.ret)]
          /\ alone' = [alone EXCEPT ![i] =
                Lone(a.self, a.ret,
                     IF a.ret.tag = "raise" THEN @.out ELSE Append(@.out, a.ret))]
          /\ gated' = [gated EXCEPT ![i] = @ /\ has_next(its[i]).ret]
          /\ rec' = [rec EXCEPT ![i] =
                Rec(r.depth, EmptyPassed(its[i], r.self, attractions))]
    /\ UNCHANGED <<attractions, attractions0, req>>

\* where main is: in the traversal with the given iterator, about to create
\* it, to call has_next or to call next; at "done" main has returned
Pc(stage, at) == [stage |-> stage, at |-> at]

InitWith(colls) ==
    /\ attractions \in colls
    /\ attractions0 = attractions
    /\ its = [i \in Insts |-> NoIter]
    /\ last = [i \in Insts |-> Call("none", FALSE, 0, None)]
    /\ out = [i \in Insts |-> <<>>]
    /\ gated = [i \in Insts |-> TRUE]
    /\ alone = [i \in Insts |-> Lone(NoIter, None, <<>>)]
    /\ req = [i \in Insts |-> ""]
    /\ rec = [i \in Insts |-> Rec(0, 0)]

\* one iterator over any collection
Init == InitWith(Collections(MaxGroups, MaxItems)) /\ pc = Pc(0, "idle")

Next ==
    \/ \E type_ \in Types : CreateIterator(1, type_) /\ UNCHANGED pc
    \/ HasNextCall(1) /\ UNCHANGED pc
    \/ NextCall(1) /\ UNCHANGED pc

Spec == Init /\ [][Next]_vars

\* two iterators over the same collection, their calls interleaved
Init2 == InitWith(Collections(MaxGroups2, MaxItems2)) /\ pc = Pc(0, "idle")

Next2 ==
    \/ \E i \in Pair, type_ \in Types : CreateIterator(i, type_) /\ UNCHANGED pc
    \/ \E i \in Pair : HasNextCall(i) /\ UNCHANGED pc
    \/ \E i \in Pair : NextCall(i) /\ UNCHANGED pc

Spec2 == Init2 /\ [][Next2]_vars

\* two sequential iterators driven by the same sequence of calls: each call
\* is made on iterator 1 and then on iterator 2, while a random iterator is
\* created and used at any moment before, between or after
Init3 == InitWith(Collections(MaxGroups3, MaxItems3)) /\ pc = Pc(1, "any")

CreateSequential(i) ==
    /\ pc = Pc(1, "any")
    /\ CreateIterator(i, "sequential")
    /\ UNCHANGED pc

Lead ==
    /\ pc = Pc(1, "any")
    /\ \A i \in Pair : its[i] # NoIter
    /\ \/ HasNextCall(1) /\ pc' = Pc(2, "has_next")
       \/ NextCall(1) /\ pc' = Pc(2, "next")

Follow ==
    /\ pc.stage = 2
    /\ \/ pc.at = "has_next" /\ HasNextCall(2)
       \/ pc.at = "next" /\ NextCall(2)
    /\ pc' = Pc(1, "any")

Next3 ==
    \/ \E i \in Pair : CreateSequential(i)
    \/ Lead
    \/ Follow
    \/ CreateIterator(3, "random_walk") /\ UNCHANGED pc
    \/ HasNextCall(3) /\ UNCHANGED pc
    \/ NextCall(3) /\ UNCHANGED pc

Spec3 == Init3 /\ [][Next3]_vars

\* ------------------------------------------------------------------- main
\* city = CityAttractions()
CityAttractions__init__ == MkCollection(<<3, 3, 2>>)

\* the tags of the three traversals of main; the first is the default
MainTypes == <<"sequential", "bus", "random_walk">>

InitMain ==
    /\ InitWith(Collections(MaxGroups, MaxItems) \cup {CityAttractions__init__})
    /\ pc = Pc(1, "create")

\* iterator = city.create_iterator(...)
main_create ==
    /\ pc.at = "create"
    /\ CreateIterator(pc.stage, MainTypes[pc.stage])
    /\ pc' = Pc(pc.stage, "has_next")

\* a loop that makes the call of next whatever has_next returned
main_has_next_ungated ==
    /\ pc.at = "has_next"
    /\ HasNextCall(pc.stage)
    /\ pc' = Pc(pc.stage, "next")

\* while iterator.has_next(): the loop ends when has_next returns False
main_has_next ==
    /\ pc.at = "has_next"
    /\ HasNextCall(pc.stage)
    /\ pc' = IF last'[pc.stage].ret = BoolVal(TRUE) THEN Pc(pc.stage, "next")
             ELSE IF pc.stage < Len(MainTypes) THEN Pc(pc.stage + 1, "create")
             ELSE Pc(pc.stage, "done")

\* print(iterator.next()): an exception raised by next ends main
main_next ==
    /\ pc.at = "next"
    /\ NextCall(pc.stage)
    /\ pc' = IF last'[pc.stage].ret.tag = "raise" THEN Pc(pc.stage, "raised")
             ELSE Pc(pc.stage, "has_next")

NextMain ==
    \/ main_create
    \/ main_has_next
    \/ main_next

\* main runs on until it returns or an exception ends it
SpecMain == InitMain /\ [][NextMain]_vars /\ WF_vars(NextMain)

\* ------------------------------------------------------------- properties
Created(i) == its[i] # NoIter

IsWalk(i) == its[i].cls \in {"SequentialIterator", "RandomWalkIterator"}

IsBus(i) == its[i].cls = "BusIterator"

\* the traversal so far was the loop "while it.has_next(): it.next()", and
\* the loop has ended
LoopDone(i) == Created(i) /\ gated[i] /\ ~has_next(its[i]).ret

TotalItems(attrs) == SumExhibits(attrs, keys(attrs), 1)

IsEmptyGroup(g) == g.exhibits = <<>>

HasExhibits(g) == g.exhibits # <<>>

Count(s, x) == Cardinality({k \in 1..Len(s) : s[k] = x})

IsPermutation(s, t) ==
    /\ Len(s) = Len(t)
    /\ \A k \in 1..Len(t) : Count(s, t[k]) = Count(t, t[k])

\* C1: has_next() is true exactly when the next() that follows returns an
\* element: a string, never None and never an error.
C1_HasNextIffNextYields ==
    \A i \in Insts :
        last[i].op = "next" => (last[i].pre <=> last[i].ret.tag = "str")

\* C2: the loop "while has_next(): next()" of a sequential or random
\* iterator produces exactly as many values as there are exhibits in all
\* attractions together.
C2_LoopYieldsItemCount ==
    \A i \in Insts :
        (LoopDone(i) /\ IsWalk(i)) => Len(out[i]) = TotalItems(attractions)

\* C3: the loop of a bus iterator produces the attraction names in the
\* collection's insertion order, one per next(), each once: after n calls
\* the output is the first n names and the index is n.
C3_BusYieldsNamesInOrder ==
    \A i \in Insts :
        (Created(i) /\ IsBus(i) /\ gated[i]) =>
            /\ its[i].index = Len(out[i])
            /\ its[i].index <= Len(attractions)
            /\ out[i] = [k \in 1..its[i].index |-> StrVal(keys(attractions)[k])]
            /\ (~has_next(its[i]).ret =>
                    out[i] = [k \in 1..Len(attractions) |-> StrVal(attractions[k].key)])

C3_Witness ==
    \E i \in Insts :
        /\ LoopDone(i) /\ IsBus(i)
        /\ Len(out[i]) = 3
        /\ last[i].op = "next"
        /\ \E k \in 1..Len(attractions) : IsEmptyGroup(attractions[k])
        /\ \E k \in 1..Len(attractions) : HasExhibits(attractions[k])

\* C4: once has_next() is false it stays false, whatever is called next.
C4_ExhaustedIsTerminal ==
    [][\A i \in Insts :
          (Created(i) /\ ~has_next(its[i]).ret) => ~has_next(its'[i]).ret]_vars

C4_Witness ==
    \E i \in Insts :
        /\ Created(i)
        /\ last[i].op = "next"
        /\ last[i].ret.tag = "raise"
        /\ ~last[i].pre
        /\ ~has_next(its[i]).ret
        /\ Len(out[i]) > 0

\* C5: a next() that has no element left to produce fails with
\* ExhaustedIterator, never returning None, and an error is raised only
\* when has_next() is false.
C5_ExhaustionRaises ==
    \A i \in Insts :
        last[i].op = "next" =>
            /\ (last[i].rem = 0 => last[i].ret = ExhaustedIterator)
            /\ (last[i].ret.tag = "raise" => ~last[i].pre)
            /\ last[i].ret # None

\* C6: has_next() is a pure read: it changes neither the iterator nor the
\* collection nor the output, repeated calls return the same value, and
\* the next() that follows returns what it would have returned before.
C6_HasNextIsPure ==
    [][\A i \in Insts :
          last'[i].op = "has_next" =>
             /\ its'[i] = its[i]
             /\ attractions' = attractions
             /\ out'[i] = out[i]
             /\ last'[i].ret = BoolVal(has_next(its[i]).ret)
             /\ (last[i].op = "has_next" => last'[i].ret = last[i].ret)
             /\ next(its'[i], attractions') = next(its[i], attractions)]_vars

C6_Witness ==
    \E i \in Insts :
        /\ Created(i) /\ IsWalk(i)
        /\ last[i].op = "has_next"
        /\ last[i].ret = BoolVal(TRUE)
        /\ Len(out[i]) > 0

\* while it.has_next(): print(it.next())
RECURSIVE Drive(_, _)
Drive(self, attrs) ==
    IF has_next(self).ret
    THEN LET r == next(self, attrs) IN <<r.ret>> \o Drive(r.self, attrs)
    ELSE <<>>

\* the collection without its empty attractions, and an iterator of the
\* same kind and order at the start of it
WithoutEmpty(attrs) == SelectSeq(attrs, HasExhibits)

Restart(self, attrs) ==
    [self EXCEPT !.keys_ = SelectSeq(@, LAMBDA key : getitem(attrs, key) # <<>>),
                 !.current_attraction = 0,
                 !.current_exhibit = 0]

\* C7: an attraction without exhibits adds no value to the output of a
\* sequential or random traversal (the output is that of the collection
\* without it), and adds its name, once, to a bus traversal.
C7_EmptyGroupContributesNothing ==
    \A i \in Insts :
        LoopDone(i) =>
            IF IsWalk(i)
            THEN out[i] = Drive(Restart(its[i], attractions), WithoutEmpty(attractions))
            ELSE \A k \in 1..Len(attractions) :
                    IsEmptyGroup(attractions[k]) =>
                        Count(out[i], StrVal(attractions[k].key)) = 1

\* C8: an iterator used next to another one over the same collection is in
\* the state, and returns the results, of the same iterator used alone.
C8_InstancesIndependent ==
    \A i \in Insts :
        /\ alone[i].self = its[i]
        /\ alone[i].ret = last[i].ret
        /\ alone[i].out = out[i]

C8_Witness ==
    /\ its[1].cls = "RandomWalkIterator"
    /\ its[1].keys_ # keys(attractions)
    /\ its[2].cls = "SequentialIterator"
    /\ out[1] # <<>>
    /\ Len(out[2]) >= 2
    /\ last[1].op = "next"
    /\ last[2].op = "has_next"

\* C9: the collection is in every state what it was at construction.
C9_CollectionNeverChanges == attractions = attractions0

C9_Witness ==
    \E i \in Insts :
        /\ its[i].cls = "RandomWalkIterator"
        /\ its[i].keys_ # keys(attractions)
        /\ last[i].op = "next"
        /\ out[i] # <<>>

\* C10: the order held by a random iterator is a permutation of the
\* collection's names from its construction on, and no call changes it.
C10_RandomOrderIsFixedPermutation ==
    [][\A i \in Insts :
          its'[i].cls = "RandomWalkIterator" =>
             /\ IsPermutation(its'[i].keys_, keys(attractions'))
             /\ (Created(i) => its'[i].keys_ = its[i].keys_)]_vars

C10_Witness ==
    \E i \in Insts :
        /\ its[i].cls = "RandomWalkIterator"
        /\ Len(its[i].keys_) = 3
        /\ its[i].keys_ # keys(attractions)
        /\ ~has_next(its[i]).ret
        /\ last[i].op = "next"

\* C11: two sequential iterators over the same collection that have been
\* given the same calls are in the same state, returned the same result at
\* the last call and produced the same output, whatever a random iterator
\* created from the collection did in between.
C11_SequentialDeterministic ==
    (pc = Pc(1, "any") /\ \A i \in Pair : its[i].cls = "SequentialIterator") =>
        /\ its[1] = its[2]
        /\ last[1].ret = last[2].ret
        /\ out[1] = out[2]

C11_Witness ==
    /\ pc = Pc(1, "any")
    /\ \A i \in Pair : its[i].cls = "SequentialIterator" /\ last[i].op = "next"
    /\ Len(out[1]) >= 2
    /\ out[1][Len(out[1])].tag = "str"
    /\ its[3].cls = "RandomWalkIterator"
    /\ its[3].keys_ # keys(attractions)
    /\ out[3] # <<>>

\* C12: create_iterator returns a bus iterator exactly for the tag "bus", a
\* random iterator exactly for the tag "random_walk" and a sequential one
\* for the default and for every other tag; it returns an iterator for
\* every tag, and a fresh iterator has all its cursors at 0.
C12_FactoryDispatch ==
    /\ \A type_ \in Types : create_iterator(attractions, type_) # {}
    /\ \A i \in Insts :
          Created(i) =>
             /\ (its[i].cls = "BusIterator") <=> (req[i] = "bus")
             /\ (its[i].cls = "RandomWalkIterator") <=> (req[i] = "random_walk")
             /\ (its[i].cls = "SequentialIterator") <=> (req[i] \notin {"bus", "random_walk"})
             /\ last[i].op = "create" =>
                   IF IsBus(i) THEN its[i].index = 0
                   ELSE its[i].current_attraction = 0 /\ its[i].current_exhibit = 0

C12_Witness ==
    \E i \in Insts :
        /\ last[i].op = "create"
        /\ req[i] = "other"
        /\ its[i].cls = "SequentialIterator"
        /\ Len(its[i].keys_) = 3

\* C13: in main every call of next is made right after a has_next of the
\* same iterator that returned True, and no call of next raises.
C13_MainGatesNext ==
    [][\A i \in Insts :
          (last'[i].op = "next" /\ last'[i] # last[i]) =>
             /\ last[i].op = "has_next"
             /\ last[i].ret = BoolVal(TRUE)
             /\ last'[i].ret.tag # "raise"
             /\ pc'.at # "raised"]_vars

C13_Witness ==
    /\ pc = Pc(3, "done")
    /\ attractions = CityAttractions__init__
    /\ Len(out[1]) = 9
    /\ Len(out[2]) = 3
    /\ its[3].keys_ # keys(attractions)
    /\ \A i \in Insts : gated[i]

\* the lines "<attraction>: <exhibit>" of the attractions from the given
\* one on, attraction by attraction, the exhibits of each in list order
RECURSIVE Lines(_, _)
Lines(attrs, from) ==
    IF from > Len(attrs) THEN <<>>
    ELSE [k \in 1..Len(attrs[from].exhibits) |->
             StrVal(attrs[from].key \o ": " \o attrs[from].exhibits[k])]
         \o Lines(attrs, from + 1)

IsStr(v) == v.tag = "str"

\* C14: the strings a sequential traversal returns are the lines of all
\* exhibits in the order (attraction position, exhibit position), each
\* exhibit once: during the traversal a prefix of them, at its end all of
\* them.
C14_SequentialOrder ==
    \A i \in Insts :
        (Created(i) /\ its[i].cls = "SequentialIterator") =>
            LET strs == SelectSeq(out[i], IsStr)
                all == Lines(attractions, 1)
            IN /\ Len(strs) <= Len(all)
               /\ strs = SubSeq(all, 1, Len(strs))
               /\ (~has_next(its[i]).ret => strs = all)

C14_Witness ==
    \E i \in Insts :
        /\ LoopDone(i)
        /\ its[i].cls = "SequentialIterator"
        /\ Len(attractions) = 3
        /\ Len(attractions[1].exhibits) = 2
        /\ IsEmptyGroup(attractions[2])
        /\ Len(attractions[3].exhibits) = 2
        /\ Len(out[i]) = 5

\* the collection with its attractions stored in the order p
StoredInOrder(attrs, p) ==
    [k \in 1..Len(p) |-> [key |-> p[k], exhibits |-> getitem(attrs, p[k])]]

\* the sequential iterator with the cursors and the order of a random one
AsSequential(self) == [self EXCEPT !.cls = "SequentialIterator"]

\* C15: a random iterator with order p and a sequential iterator over the
\* collection stored in order p simulate each other: they start in the
\* same state, and from the same state has_next and next return the same
\* results and lead to the same cursors.
C15_RandomIsSequentialOverShuffle ==
    \A i \in Insts :
        its[i].cls = "RandomWalkIterator" =>
            LET seq == AsSequential(its[i])
                stored == StoredInOrder(attractions, its[i].keys_)
                r == next(its[i], attractions)
                q == next(seq, stored)
            IN /\ (last[i].op = "create" => seq = SequentialIterator__init__(stored))
               /\ has_next(seq).ret = has_next(its[i]).ret
               /\ has_next(seq).self = AsSequential(has_next(its[i]).self)
               /\ q.ret = r.ret
               /\ q.self = AsSequential(r.self)

C15_Witness ==
    \E i \in Insts :
        /\ its[i].cls = "RandomWalkIterator"
        /\ its[i].keys_ # keys(attractions)
        /\ last[i].op = "next"
        /\ rec[i].skipped >= 1
        /\ last[i].ret.tag = "str"
        /\ has_next(its[i]).ret

\* C16 as claimed: a next() call of a sequential or random iterator
\* re-enters next at most as many times as it skips empty attractions.
C16_DepthAtMostEmptySkipped ==
    \A i \in Insts :
        (Created(i) /\ IsWalk(i) /\ last[i].op = "next") =>
            rec[i].depth <= rec[i].skipped

\* C16 as amended: a next() call of a sequential or random iterator
\* re-enters next at most once more than it skips empty attractions: it
\* re-enters next also after leaving an attraction whose exhibits have all
\* been returned.
C16_DepthAtMostEmptySkippedPlusOne ==
    \A i \in Insts :
        (Created(i) /\ IsWalk(i) /\ last[i].op = "next") =>
            rec[i].depth <= rec[i].skipped + 1

C16_Witness ==
    \E i \in Insts :
        /\ Created(i) /\ IsWalk(i)
        /\ last[i].op = "next"
        /\ last[i].ret.tag = "str"
        /\ rec[i].skipped = 1
        /\ rec[i].depth = 2

\* the position of an iterator: (attraction cursor, exhibit cursor), or the
\* index of a bus iterator
Cursor(self) ==
    IF self.cls = "BusIterator" THEN <<self.index, 0>>
    ELSE <<self.current_attraction, self.current_exhibit>>

LexLess(a, b) == a[1] < b[1] \/ (a[1] = b[1] /\ a[2] < b[2])

\* C17: every next() that main calls, always with has_next() true, moves
\* the cursor of its iterator strictly forward in lexicographic order, and
\* main reaches its end: each of the three loops ends after finitely many
\* calls.
C17_TraversalTerminates ==
    /\ [][pc.at = "next" =>
             /\ has_next(its[pc.stage]).ret
             /\ LexLess(Cursor(its[pc.stage]), Cursor(its'[pc.stage]))]_vars
    /\ <>(pc = Pc(Len(MainTypes), "done"))

C17_Witness ==
    /\ pc = Pc(3, "done")
    /\ Len(attractions) = 3
    /\ \A i \in Insts : ~has_next(its[i]).ret
    /\ Len(out[1]) = 5
    /\ its[3].keys_ # keys(attractions)
    /\ \E k \in 1..3 : IsEmptyGroup(attractions[k])

\* all sequences of the length of ks in which every name of ks occurs
\* as often as in ks
Orderings(ks) ==
    {p \in [1..Len(ks) -> {ks[k] : k \in 1..Len(ks)}] : IsPermutation(p, ks)}

\* the creation of a random iterator i can end with the ordering p
CanCreateWithOrder(i, p) ==
    ENABLED (CreateIterator(i, "random_walk") /\ its'[i].keys_ = p)

\* C18: whatever iterators exist already and whatever they have done, the
\* creation of a random iterator can end with every ordering of the
\* collection's names; with two or more names it can end with one that is
\* not the insertion order and with one that differs from the order of a
\* random iterator created before.
C18_EveryOrderingPossible ==
    \A i \in Pair :
        ~Created(i) =>
            /\ \A p \in Orderings(keys(attractions0)) : CanCreateWithOrder(i, p)
            /\ Len(attractions0) >= 2 =>
                  /\ \E p \in Orderings(keys(attractions0)) :
                        p # keys(attractions0) /\ CanCreateWithOrder(i, p)
                  /\ \A j \in Insts :
                        its[j].cls = "RandomWalkIterator" =>
                            \E p \in Orderings(keys(attractions0)) :
                                p # its[j].keys_ /\ CanCreateWithOrder(i, p)

C18_Witness ==
    /\ its[1].cls = "RandomWalkIterator"
    /\ its[2].cls = "RandomWalkIterator"
    /\ its[1].keys_ # its[2].keys_
    /\ its[1].keys_ = keys(attractions)
    /\ out[1] # <<>>
    /\ last[2].op = "create"

\* the cursors of a sequential or random iterator are within range
CursorsInRange(self, attrs) ==
    /\ 0 <= self.current_attraction
    /\ self.current_attraction <= Len(self.keys_)
    /\ self.current_attraction < Len(self.keys_) =>
          /\ 0 <= self.current_exhibit
          /\ self.current_exhibit
                <= Len(getitem(attrs, self.keys_[self.current_attraction + 1]))
    /\ self.current_attraction = Len(self.keys_) => self.current_exhibit = 0

\* C19: after every step, failing next() calls included, the cursors of a
\* sequential or random iterator are within range: the attraction cursor
\* is between 0 and the number of attractions and not smaller than before,
\* the exhibit cursor is between 0 and the number of exhibits of the
\* attraction at the cursor, and it is 0 when all attractions are passed.
C19_CursorInvariant ==
    [][\A i \in Insts :
          its'[i].cls \in {"SequentialIterator", "RandomWalkIterator"} =>
             /\ CursorsInRange(its'[i], attractions')
             /\ (Created(i) =>
                    its'[i].current_attraction >= its[i].current_attraction)]_vars

C19_Witness ==
    \E i \in Insts :
        /\ Created(i) /\ IsWalk(i)
        /\ last[i].op = "next"
        /\ last[i].ret.tag = "raise"
        /\ its[i].current_attraction = 3
        /\ Len(out[i]) >= 4

====
